---- MODULE Spec2Model ----
\* A model of amethyst_assets::Loader (src/amethyst_assets/src/loader.rs):
\* the source registry, the hot-reload flag, the mutex-guarded handle cache
\* keyed by the FNV-1a hash of (path, source, type id), the jobs spawned onto
\* the thread pool, and the collaborators the loader drives (AssetStorage's
\* allocator and `processed` queue, Progress objects).
EXTENDS Integers, Sequences, FiniteSets, TLC

\* ---------------------------------------------------------------- bounds
\* Total number of load / load_from_data calls made on the Loader.
MaxCalls == 2
\* Total number of add_source / set_default_source / set_hot_reload calls.
MaxConfigCalls == 1

\* ---------------------------------------------------------------- inputs
\* Caller threads sharing `&Loader`.
Threads == {"t1", "t2"}

\* Asset names, as the UTF-8 bytes of the `name` argument.
NameA == <<102, 112, 57, 54, 66, 67, 87, 53, 78, 119, 112>>  \* "fp96BCW5Nwp"
NameB == <<75, 69, 85, 85, 70, 56, 52, 97, 99, 103, 112>>    \* "KEUUF84acgp"
NameC == <<97, 46, 98, 105, 110>>                            \* "a.bin"
Names == {NameA, NameB, NameC}

\* Source ids, as the UTF-8 bytes of the `source` argument.
DefaultSource == <<>>                                        \* ""
OtherSource == <<115>>                                       \* "s"
SourceIds == {DefaultSource, OtherSource}

\* Source backends (the `S: Source` values handed to add_source).
Backends == {"dir1", "dir2"}

\* Asset types A, and the AssetStorage<A> instances passed as `storage`.
Types == {"Texture", "Mesh"}
Storages == {"tex1", "tex2", "mesh1"}
AssetType(st) == IF st = "mesh1" THEN "Mesh" ELSE "Texture"

\* TypeId::of::<A>() as the eight little-endian bytes TypeId feeds the hasher.
TypeIdBytes(ty) == IF ty = "Texture" THEN <<1, 0, 0, 0, 0, 0, 0, 0>>
                                     ELSE <<2, 0, 0, 0, 0, 0, 0, 0>>

\* The requests (name, source, storage) the callers make: a request, one whose
\* name differs, the same name for another asset type, from another source,
\* into another storage of the same type, and a third name.
Requests == {<<NameA, DefaultSource, "tex1">>, <<NameB, DefaultSource, "tex1">>,
             <<NameA, DefaultSource, "mesh1">>, <<NameA, OtherSource, "tex1">>,
             <<NameA, DefaultSource, "tex2">>, <<NameC, DefaultSource, "tex1">>}

\* Each caller thread passes its own progress counter (`&mut ProgressCounter`).
ProgressObjs == {"p1", "p2"}
ProgressOf(t) == IF t = "t1" THEN "p1" ELSE "p2"

\* The (format, or_else) arguments of the calls: F::NAME of the format, and
\* the or_else closure, "propagate" being load_from's |err| Err(err).
Formats == {"RON", "JSON"}
OrElses == {"propagate", "substitute", "fail"}
JobArgs == {<<"RON", "propagate">>, <<"RON", "substitute">>, <<"JSON", "fail">>}
\* load and load_from: no recovery transform.
LoadArgs == {<<"RON", "propagate">>}
\* The requests of the runs that vary the job's arguments.
JobRequests == {<<NameA, DefaultSource, "tex1">>, <<NameA, OtherSource, "tex1">>}

\* ---------------------------------------------------------------- key hash
\* u64 values are four 16-bit limbs, least significant first.
Limb == 65536
FnvPrimeLow == 435
FnvOffsetBasis == <<8997, 33826, 40164, 52210>>   \* 0xcbf29ce484222325

RECURSIVE XorBits(_, _, _)
XorBits(a, b, n) ==
    IF n = 0 THEN 0
    ELSE ((a + b) % 2) + 2 * XorBits(a \div 2, b \div 2, n - 1)

\* h ^ byte
XorByte(h, b) ==
    <<(h[1] \div 256) * 256 + XorBits(h[1] % 256, b, 8), h[2], h[3], h[4]>>

\* h.wrapping_mul(0x100000001b3), 0x100000001b3 = 2^40 + 435
MulPrime(h) ==
    LET a0 == h[1] * FnvPrimeLow
        a1 == h[2] * FnvPrimeLow + (a0 \div Limb)
        a2 == h[3] * FnvPrimeLow + (a1 \div Limb) + (h[1] % 256) * 256
        a3 == h[4] * FnvPrimeLow + (a2 \div Limb) + (h[2] % 256) * 256
                                 + (h[1] \div 256)
    IN  <<a0 % Limb, a1 % Limb, a2 % Limb, a3 % Limb>>

\* The values of a u64.
U64 == [1..4 -> 0..(Limb - 1)]

\* FnvHasher::write: for each byte, hash ^= byte; hash *= prime. Each step's
\* hash is a u64 again (the arithmetic wraps).
RECURSIVE FnvWrite(_, _)
FnvWrite(h, bytes) ==
    IF bytes = <<>> THEN h
    ELSE LET hash == MulPrime(XorByte(h, Head(bytes)))
         IN  IF hash \in U64 THEN FnvWrite(hash, Tail(bytes)) ELSE <<>>

\* #[derive(Hash)] on LoadInfo: each &str writes its bytes and 0xff, the
\* TypeId writes its u64.
LoadInfoBytes(path, source, ty) ==
    path \o <<255>> \o source \o <<255>> \o TypeIdBytes(ty)

LoadInfoHash(path, source, ty) ==
    FnvWrite(FnvOffsetBasis, LoadInfoBytes(path, source, ty))

\* The keys of all requests of the model, hashed once.
Triples == Names \X SourceIds \X Types
KeyTable == [tr \in Triples |-> LoadInfoHash(tr[1], tr[2], tr[3])]
KeyOf(name, source, ty) == KeyTable[<<name, source, ty>>]

\* ---------------------------------------------------------------- state
VARIABLES
    hot_reload,   \* Loader.hot_reload
    sources,      \* Loader.sources: source id -> backend
    handles,      \* Loader.handles (inside the Mutex): key -> boxed handle
    lockHolder,   \* the thread holding the handles mutex, or NoThread
    poisoned,     \* the handles mutex is poisoned
    allocated,    \* per storage: number of handles allocated
    processed,    \* per storage: the `processed` queue
    num_assets,   \* per progress object: sum of add_assets
    trackers,     \* per progress object: number of trackers created
    jobs,         \* closures spawned onto the pool, in spawn order
    calls,        \* per thread: the call in progress
    returned,     \* history: the calls that returned a handle
    aborted,      \* history: the calls that panicked
    ncalls,       \* history: number of calls made
    nconfig       \* history: number of registry / flag calls made

vars == <<hot_reload, sources, handles, lockHolder, poisoned, allocated,
          processed, num_assets, trackers, jobs, calls, returned, aborted,
          ncalls, nconfig>>

NoThread == "none"
NoHandle == [storage |-> "none", id |-> 0]
NoTracker == [progress |-> "none", n |-> 0]
IdleCall == [pc |-> "idle", name |-> <<>>, source |-> <<>>, storage |-> "none",
             key |-> <<>>, handle |-> NoHandle, tracker |-> NoTracker,
             data |-> "none"]

\* Loader::with_default_source, with fresh storages and progress objects.
Init ==
    /\ hot_reload = TRUE
    /\ sources = [id \in {DefaultSource} |-> "dir1"]
    /\ handles = <<>>
    /\ lockHolder = NoThread
    /\ poisoned = FALSE
    /\ allocated = [st \in Storages |-> 0]
    /\ processed = [st \in Storages |-> <<>>]
    /\ num_assets = [p \in ProgressObjs |-> 0]
    /\ trackers = [p \in ProgressObjs |-> 0]
    /\ jobs = <<>>
    /\ calls = [t \in Threads |-> IdleCall]
    /\ returned = {}
    /\ aborted = {}
    /\ ncalls = 0
    /\ nconfig = 0


\* ---------------------------------------------------------------- helpers
Busy(t) == calls[t].pc # "idle"

\* A panic unwinds the call: the thread is back at its caller without a handle.
Abort(t, why) ==
    /\ aborted' = aborted \cup
           {[op |-> "load", name |-> calls[t].name, source |-> calls[t].source,
             type |-> AssetType(calls[t].storage), why |-> why,
             registered |-> calls[t].source \in DOMAIN sources]}
    /\ calls' = [calls EXCEPT ![t] = IdleCall]

\* The call hands `handle` back to its caller.
Return(t, handle, hit) ==
    /\ returned' = returned \cup
           {[op |-> IF calls[t].pc = "data_push" THEN "data" ELSE "load",
             name |-> calls[t].name, source |-> calls[t].source,
             type |-> AssetType(calls[t].storage), key |-> calls[t].key,
             storage |-> calls[t].storage, handle |-> handle,
             hit |-> hit, registered |-> calls[t].source \in DOMAIN sources,
             backend |-> IF calls[t].source \in DOMAIN sources
                         THEN sources[calls[t].source] ELSE "none"]}
    /\ calls' = [calls EXCEPT ![t] = IdleCall]

\* AssetStorage::allocate: the next unused handle of the storage.
Allocate(st) == [storage |-> st, id |-> allocated[st] + 1]

\* Progress::create_tracker on progress object p.
CreateTracker(p) == [progress |-> p, n |-> trackers[p] + 1]

\* ---------------------------------------------------------------- registry
\* Mutant: registering a source empties the handle cache.
AddSourceClearsCache(id, b) ==
    /\ \A t \in Threads : ~Busy(t)
    /\ nconfig < MaxConfigCalls
    /\ nconfig' = nconfig + 1
    /\ sources' = [i \in DOMAIN sources \cup {id} |->
                      IF i = id THEN b ELSE sources[i]]
    /\ handles' = <<>>
    /\ UNCHANGED <<hot_reload, lockHolder, poisoned, allocated,
                   processed, num_assets, trackers, jobs, calls, returned,
                   aborted, ncalls>>

\* Mutant: an id already registered keeps its backend.
AddSourceKeepsFirst(id, b) ==
    /\ \A t \in Threads : ~Busy(t)
    /\ nconfig < MaxConfigCalls
    /\ nconfig' = nconfig + 1
    /\ sources' = [i \in DOMAIN sources \cup {id} |->
                      IF i \in DOMAIN sources THEN sources[i] ELSE b]
    /\ UNCHANGED <<hot_reload, handles, lockHolder, poisoned, allocated,
                   processed, num_assets, trackers, jobs, calls, returned,
                   aborted, ncalls>>

\* Loader::add_source (&mut self: no load call is in progress).
AddSource(id, b) ==
    /\ \A t \in Threads : ~Busy(t)
    /\ nconfig < MaxConfigCalls
    /\ nconfig' = nconfig + 1
    /\ sources' = [i \in DOMAIN sources \cup {id} |->
                      IF i = id THEN b ELSE sources[i]]
    /\ UNCHANGED <<hot_reload, handles, lockHolder, poisoned, allocated,
                   processed, num_assets, trackers, jobs, calls, returned,
                   aborted, ncalls>>

\* Loader::set_default_source
SetDefaultSource(b) == AddSource(DefaultSource, b)

\* Loader::set_hot_reload (&mut self)
SetHotReload(value) ==
    /\ \A t \in Threads : ~Busy(t)
    /\ nconfig < MaxConfigCalls
    /\ nconfig' = nconfig + 1
    /\ hot_reload' = value
    /\ UNCHANGED <<sources, handles, lockHolder, poisoned, allocated,
                   processed, num_assets, trackers, jobs, calls, returned,
                   aborted, ncalls>>

\* ---------------------------------------------------------------- load
\* load / load_or_else / load_from / load_from_or_else are one function:
\* load passes source "", load_from passes or_else = |err| Err(err).
\* Entry: the key is computed from (name, source, TypeId::of::<A>()).
LoadFromOrElse(t, name, source, st) ==
    /\ ~Busy(t)
    /\ ncalls < MaxCalls
    /\ ncalls' = ncalls + 1
    /\ calls' = [calls EXCEPT ![t] =
           [IdleCall EXCEPT !.pc = "lock", !.name = name, !.source = source,
                            !.storage = st,
                            !.key = KeyOf(name, source, AssetType(st))]]
    /\ UNCHANGED <<hot_reload, sources, handles, lockHolder, poisoned,
                   allocated, processed, num_assets, trackers, jobs, returned,
                   aborted, nconfig>>

\* Mutant: the lock is taken without waiting for its holder to release it.
HandlesLockNoWait(t) ==
    /\ calls[t].pc = "lock"
    /\ IF poisoned
       THEN /\ Abort(t, "poisoned")
            /\ UNCHANGED <<lockHolder, returned, nconfig>>
       ELSE /\ lockHolder' = t
            /\ calls' = [calls EXCEPT ![t].pc = "get"]
            /\ UNCHANGED <<returned, aborted, nconfig>>
    /\ UNCHANGED <<hot_reload, sources, handles, poisoned, allocated,
                   processed, num_assets, trackers, jobs, ncalls, nconfig>>

\* self.handles.lock().expect(..): blocks while another thread holds the
\* mutex; panics when the mutex is poisoned.
HandlesLock(t) ==
    /\ calls[t].pc = "lock"
    /\ lockHolder = NoThread
    /\ IF poisoned
       THEN /\ Abort(t, "poisoned")
            /\ UNCHANGED <<lockHolder, returned, nconfig>>
       ELSE /\ lockHolder' = t
            /\ calls' = [calls EXCEPT ![t].pc = "get"]
            /\ UNCHANGED <<returned, aborted, nconfig>>
    /\ UNCHANGED <<hot_reload, sources, handles, poisoned, allocated,
                   processed, num_assets, trackers, jobs, ncalls, nconfig>>

\* Mutant: the lookup never finds the key.
HandlesContainsNever(key) == FALSE

\* handles.get(&key) is Some
HandlesContains(key) == key \in DOMAIN handles

\* Mutant: a hit adds an asset to the progress object of its call.
HandlesGetCountsHit(t) ==
    /\ calls[t].pc = "get"
    /\ lockHolder = t
    /\ IF HandlesContains(calls[t].key)
       THEN /\ Return(t, handles[calls[t].key].handle, TRUE)
            /\ num_assets' = [num_assets EXCEPT ![ProgressOf(t)] = @ + 1]
            /\ lockHolder' = NoThread
            /\ UNCHANGED <<poisoned, aborted>>
       ELSE /\ calls' = [calls EXCEPT ![t].pc = "allocate"]
            /\ UNCHANGED <<lockHolder, poisoned, returned, aborted, num_assets>>
    /\ UNCHANGED <<hot_reload, sources, handles, allocated, processed,
                   trackers, jobs, ncalls, nconfig>>

\* Mutant: a hit spawns a job of its own for the cached handle.
HandlesGetSpawns(t) ==
    /\ calls[t].pc = "get"
    /\ lockHolder = t
    /\ IF HandlesContains(calls[t].key)
       THEN /\ Return(t, handles[calls[t].key].handle, TRUE)
            /\ jobs' = Append(jobs,
                   [name |-> calls[t].name, source |-> "dir1",
                    hot_reload |-> hot_reload,
                    handle |-> handles[calls[t].key].handle,
                    tracker |-> NoTracker, format |-> "RON",
                    or_else |-> "propagate", source_id |-> calls[t].source,
                    type |-> AssetType(calls[t].storage), key |-> calls[t].key,
                    state |-> "queued", outcome |-> "none"])
            /\ lockHolder' = NoThread
            /\ UNCHANGED <<poisoned, aborted>>
       ELSE /\ calls' = [calls EXCEPT ![t].pc = "allocate"]
            /\ UNCHANGED <<lockHolder, poisoned, returned, aborted, jobs>>
    /\ UNCHANGED <<hot_reload, sources, handles, allocated, processed,
                   num_assets, trackers, ncalls, nconfig>>

\* handles.get(&key): on a hit the boxed handle is downcast to Handle<A> and
\* its clone returned (the guard is dropped); a failed downcast panics with
\* the guard held, which poisons the mutex.
HandlesGet(t) ==
    /\ calls[t].pc = "get"
    /\ lockHolder = t
    /\ IF HandlesContains(calls[t].key)
       THEN IF handles[calls[t].key].type = AssetType(calls[t].storage)
            THEN /\ Return(t, handles[calls[t].key].handle, TRUE)
                 /\ lockHolder' = NoThread
                 /\ UNCHANGED <<poisoned, aborted, nconfig>>
            ELSE /\ Abort(t, "downcast")
                 /\ poisoned' = TRUE
                 /\ lockHolder' = NoThread
                 /\ UNCHANGED returned
       ELSE /\ calls' = [calls EXCEPT ![t].pc = "allocate"]
            /\ UNCHANGED <<lockHolder, poisoned, returned, aborted, nconfig>>
    /\ UNCHANGED <<hot_reload, sources, handles, allocated, processed,
                   num_assets, trackers, jobs, ncalls, nconfig>>

\* Mutant: the cache keeps another handle than the one handed to the caller.
BoxedOther(t, handle) ==
    [handle |-> [handle EXCEPT !.id = @ + 1],
     type |-> AssetType(calls[t].storage)]

\* The cache entry stored for a miss.
Boxed(t, handle) == [handle |-> handle, type |-> AssetType(calls[t].storage)]

\* Mutant: the insertion evicts the entries of the other keys.
HandlesInsertEvicts(t) ==
    /\ calls[t].pc = "allocate"
    /\ lockHolder = t
    /\ LET handle == Allocate(calls[t].storage)
       IN  /\ allocated' = [allocated EXCEPT ![calls[t].storage] = @ + 1]
           /\ handles' = [k \in {calls[t].key} |-> Boxed(t, handle)]
           /\ calls' = [calls EXCEPT ![t].pc = "progress",
                                     ![t].handle = handle]
    /\ lockHolder' = NoThread
    /\ UNCHANGED <<hot_reload, sources, poisoned, processed, num_assets,
                   trackers, jobs, returned, aborted, ncalls, nconfig>>

\* storage.allocate(); handles.insert(key, Box::new(handle.clone())); the
\* guard is dropped at the end of the block.
HandlesInsert(t) ==
    /\ calls[t].pc = "allocate"
    /\ lockHolder = t
    /\ LET handle == Allocate(calls[t].storage)
       IN  /\ allocated' = [allocated EXCEPT ![calls[t].storage] = @ + 1]
           /\ handles' = [k \in DOMAIN handles \cup {calls[t].key} |->
                             IF k = calls[t].key THEN Boxed(t, handle)
                                                 ELSE handles[k]]
           /\ calls' = [calls EXCEPT ![t].pc = "progress",
                                     ![t].handle = handle]
    /\ lockHolder' = NoThread
    /\ UNCHANGED <<hot_reload, sources, poisoned, processed, num_assets,
                   trackers, jobs, returned, aborted, ncalls, nconfig>>

\* progress.add_assets(1); progress.create_tracker()
ProgressAddAssets(t) ==
    /\ calls[t].pc = "progress"
    /\ num_assets' = [num_assets EXCEPT ![ProgressOf(t)] = @ + 1]
    /\ trackers' = [trackers EXCEPT ![ProgressOf(t)] = @ + 1]
    /\ calls' = [calls EXCEPT ![t].pc = "source",
                              ![t].tracker = CreateTracker(ProgressOf(t))]
    /\ UNCHANGED <<hot_reload, sources, handles, lockHolder, poisoned,
                   allocated, processed, jobs, returned, aborted, ncalls, nconfig>>

\* self.source(source): .expect("No such source...") panics when the id is
\* not registered.
SourceMissing(t) ==
    /\ calls[t].pc = "source"
    /\ calls[t].source \notin DOMAIN sources
    /\ Abort(t, "no such source")
    /\ UNCHANGED <<hot_reload, sources, handles, lockHolder, poisoned,
                   allocated, processed, num_assets, trackers, jobs, returned,
                   ncalls, nconfig>>

\* The closure `cl`: what the job captures when it is built.
Closure(t, format, or_else) ==
    [name |-> calls[t].name, source |-> sources[calls[t].source],
     hot_reload |-> hot_reload, handle |-> calls[t].handle,
     tracker |-> calls[t].tracker, format |-> format, or_else |-> or_else,
     source_id |-> calls[t].source, type |-> AssetType(calls[t].storage),
     key |-> calls[t].key, state |-> "queued", outcome |-> "none"]

\* self.source(source) succeeds; the closure is built and self.pool.spawn(cl).
PoolSpawn(t, format, or_else) ==
    /\ calls[t].pc = "source"
    /\ calls[t].source \in DOMAIN sources
    /\ jobs' = Append(jobs, Closure(t, format, or_else))
    /\ calls' = [calls EXCEPT ![t].pc = "return"]
    /\ UNCHANGED <<hot_reload, sources, handles, lockHolder, poisoned,
                   allocated, processed, num_assets, trackers, returned,
                   aborted, ncalls, nconfig>>

\* Mutant: the call joins its job before it returns.
LoadReturnJoinsJob(t) ==
    /\ calls[t].pc = "return"
    /\ \E i \in DOMAIN jobs :
           jobs[i].handle = calls[t].handle /\ jobs[i].state = "done"
    /\ Return(t, calls[t].handle, FALSE)
    /\ UNCHANGED <<hot_reload, sources, handles, lockHolder, poisoned,
                   allocated, processed, num_assets, trackers, jobs, aborted,
                   ncalls, nconfig>>

\* handle_clone is returned.
LoadReturn(t) ==
    /\ calls[t].pc = "return"
    /\ Return(t, calls[t].handle, FALSE)
    /\ UNCHANGED <<hot_reload, sources, handles, lockHolder, poisoned,
                   allocated, processed, num_assets, trackers, jobs, aborted,
                   ncalls, nconfig>>

\* ---------------------------------------------------------------- the job
\* Format::import: the decoder's result, Ok(FormatValue) or Err(error).
ImportOutcomes == {"ok", "err"}
Import(job, outcome) ==
    IF outcome = "ok"
    THEN [ok |-> TRUE,
          value |-> [data |-> "decoded", by |-> job.format,
                     from |-> job.source, reload |-> job.hot_reload]]
    ELSE [ok |-> FALSE, value |-> [error |-> "E", context |-> <<>>]]

\* The or_else closure applied to the decoder's error.
ApplyOrElse(or_else, err) ==
    CASE or_else = "propagate" -> [ok |-> FALSE, value |-> err]
      [] or_else = "substitute" ->
            [ok |-> TRUE, value |-> [data |-> "fallback", by |-> "or_else",
                                     from |-> "or_else", reload |-> FALSE]]
      [] OTHER -> [ok |-> FALSE, value |-> [error |-> "E2", context |-> <<>>]]

\* Mutant: the recovery transform is never applied.
OrElseSkipped(res, or_else) == res

\* Result::or_else(|err| or_else(err).map(FormatValue::data))
OrElse(res, or_else) == IF res.ok THEN res ELSE ApplyOrElse(or_else, res.value)

\* Mutant: the error is passed on without the format's context.
WithContextMissing(res, format) == res

\* ResultExt::with_context(|_| Error::Format(F::NAME))
WithContext(res, format) ==
    IF res.ok THEN res
    ELSE [ok |-> FALSE,
          value |-> [res.value EXCEPT !.context = <<format>> \o @]]

\* Mutant: the decoder is handed the Loader's flag as it is when the job runs.
JobDataLateFlag(job, outcome) ==
    WithContext(OrElse(Import([job EXCEPT !.hot_reload = hot_reload], outcome),
                       job.or_else), job.format)

\* The data of the Processed::NewAsset a job pushes.
JobData(job, outcome) ==
    WithContext(OrElse(Import(job, outcome), job.or_else), job.format)

\* Processed::NewAsset { data, handle, name, tracker }
NewAsset(data, handle, name, tracker) ==
    [data |-> data, handle |-> handle, name |-> name, tracker |-> tracker]

\* Mutant: the job returns early on an error and pushes nothing.
RunJobDropsFailure(i, outcome) ==
    /\ i \in DOMAIN jobs
    /\ jobs[i].state = "queued"
    /\ processed' = [processed EXCEPT ![jobs[i].handle.storage] =
           IF JobData(jobs[i], outcome).ok
           THEN Append(@, NewAsset(JobData(jobs[i], outcome), jobs[i].handle,
                                   jobs[i].name, jobs[i].tracker))
           ELSE @]
    /\ jobs' = [jobs EXCEPT ![i].state = "done", ![i].outcome = outcome]
    /\ UNCHANGED <<hot_reload, sources, handles, lockHolder, poisoned,
                   allocated, num_assets, trackers, calls, returned, aborted,
                   ncalls, nconfig>>

\* Mutant: a job whose decode failed removes its key from the handle cache.
RunJobUncachesFailure(i, outcome) ==
    /\ i \in DOMAIN jobs
    /\ jobs[i].state = "queued"
    /\ processed' = [processed EXCEPT ![jobs[i].handle.storage] =
           Append(@, NewAsset(JobData(jobs[i], outcome), jobs[i].handle,
                              jobs[i].name, jobs[i].tracker))]
    /\ handles' = IF JobData(jobs[i], outcome).ok THEN handles
                  ELSE [k \in DOMAIN handles \ {jobs[i].key} |-> handles[k]]
    /\ jobs' = [jobs EXCEPT ![i].state = "done", ![i].outcome = outcome]
    /\ UNCHANGED <<hot_reload, sources, lockHolder, poisoned,
                   allocated, num_assets, trackers, calls, returned, aborted,
                   ncalls, nconfig>>

\* A worker runs closure i: import, or_else, with_context, processed.push.
RunJob(i, outcome) ==
    /\ i \in DOMAIN jobs
    /\ jobs[i].state = "queued"
    /\ processed' = [processed EXCEPT ![jobs[i].handle.storage] =
           Append(@, NewAsset(JobData(jobs[i], outcome), jobs[i].handle,
                              jobs[i].name, jobs[i].tracker))]
    /\ jobs' = [jobs EXCEPT ![i].state = "done", ![i].outcome = outcome]
    /\ UNCHANGED <<hot_reload, sources, handles, lockHolder, poisoned,
                   allocated, num_assets, trackers, calls, returned, aborted,
                   ncalls, nconfig>>

\* ---------------------------------------------------------------- load_from_data
DataName == <<60, 68, 97, 116, 97, 62>>   \* "<Data>"
DataValues == {"d1", "d2"}

\* Loader::load_from_data: add_assets(1), create_tracker, storage.allocate().
LoadFromData(t, data, st) ==
    /\ ~Busy(t)
    /\ ncalls < MaxCalls
    /\ ncalls' = ncalls + 1
    /\ num_assets' = [num_assets EXCEPT ![ProgressOf(t)] = @ + 1]
    /\ trackers' = [trackers EXCEPT ![ProgressOf(t)] = @ + 1]
    /\ allocated' = [allocated EXCEPT ![st] = @ + 1]
    /\ calls' = [calls EXCEPT ![t] =
           [IdleCall EXCEPT !.pc = "data_push", !.name = DataName,
                            !.storage = st, !.handle = Allocate(st),
                            !.tracker = CreateTracker(ProgressOf(t)),
                            !.data = data]]
    /\ UNCHANGED <<hot_reload, sources, handles, lockHolder, poisoned,
                   processed, jobs, returned, aborted, nconfig>>

\* Ok(FormatValue::data(data))
DataOk(data) ==
    [ok |-> TRUE, value |-> [data |-> data, by |-> "caller", from |-> "caller",
                             reload |-> FALSE]]

\* Mutant: load_from_data returns its handle without pushing the result.
LoadFromDataNoPush(t) ==
    /\ calls[t].pc = "data_push"
    /\ Return(t, calls[t].handle, FALSE)
    /\ UNCHANGED <<hot_reload, sources, handles, lockHolder, poisoned,
                   allocated, processed, num_assets, trackers, jobs, aborted,
                   ncalls, nconfig>>

\* storage.processed.push(NewAsset { data: Ok(..), .. }) and the return.
LoadFromDataPush(t) ==
    /\ calls[t].pc = "data_push"
    /\ processed' = [processed EXCEPT ![calls[t].storage] =
           Append(@, NewAsset(DataOk(calls[t].data), calls[t].handle,
                              DataName, calls[t].tracker))]
    /\ Return(t, calls[t].handle, FALSE)
    /\ UNCHANGED <<hot_reload, sources, handles, lockHolder, poisoned,
                   allocated, num_assets, trackers, jobs, aborted, ncalls, nconfig>>

\* ---------------------------------------------------------------- system
\* A caller thread enters a call.
CallStart(t, reqs) ==
    \/ \E req \in reqs : LoadFromOrElse(t, req[1], req[2], req[3])
    \/ \E data \in DataValues, st \in Storages : LoadFromData(t, data, st)

\* A caller thread takes the next step of its call.
CallStep(t, args) ==
    \/ HandlesLock(t)
    \/ HandlesGet(t)
    \/ HandlesInsert(t)
    \/ ProgressAddAssets(t)
    \/ SourceMissing(t)
    \/ \E a \in args : PoolSpawn(t, a[1], a[2])
    \/ LoadReturn(t)
    \/ LoadFromDataPush(t)

\* A pool worker runs one spawned closure.
WorkerStep(i) == \E outcome \in ImportOutcomes : RunJob(i, outcome)

\* The owner of the Loader reconfigures it.
ConfigStep ==
    \/ \E id \in SourceIds, b \in Backends : AddSource(id, b)
    \/ \E b \in Backends : SetDefaultSource(b)
    \/ \E value \in BOOLEAN : SetHotReload(value)

JobIds == 1..MaxCalls

\* Calls made through load / load_from (no recovery transform).
Next ==
    \/ \E t \in Threads : CallStart(t, Requests) \/ CallStep(t, LoadArgs)
    \/ \E i \in JobIds : WorkerStep(i)
    \/ ConfigStep

Spec == Init /\ [][Next]_vars

\* The workers of the pool are scheduled fairly.
SpecFairWorkers == Spec /\ \A i \in JobIds : WF_vars(WorkerStep(i))

\* Calls made through load_or_else / load_from_or_else with every kind of
\* recovery transform.
NextJobs ==
    \/ \E t \in Threads : CallStart(t, JobRequests) \/ CallStep(t, JobArgs)
    \/ \E i \in JobIds : WorkerStep(i)
    \/ ConfigStep

SpecJobs == Init /\ [][NextJobs]_vars

\* The pool never runs a job; the caller threads are scheduled fairly.
NextCallers ==
    \/ \E t \in Threads : CallStart(t, Requests) \/ CallStep(t, LoadArgs)
    \/ ConfigStep

SpecCallers ==
    Init /\ [][NextCallers]_vars /\ \A t \in Threads : WF_vars(CallStep(t, LoadArgs))


\* ---------------------------------------------------------------- properties
\* The load calls (not load_from_data) that returned a handle.
LoadsReturned == {r \in returned : r.op = "load"}

SameTriple(a, b) == a.name = b.name /\ a.source = b.source /\ a.type = b.type

\* The jobs spawned for the request (name, source id, asset type).
JobsFor(name, source, ty) ==
    {i \in DOMAIN jobs : jobs[i].name = name /\ jobs[i].source_id = source
                         /\ jobs[i].type = ty}

RECURSIVE SumOver(_, _)
SumOver(f, S) ==
    IF S = {} THEN 0
    ELSE LET x == CHOOSE y \in S : TRUE IN f[x] + SumOver(f, S \ {x})

\* Handles allocated by load_from_data calls.
DataAllocations ==
    Cardinality({t \in Threads : calls[t].pc = "data_push"})
    + SumOver([st \in Storages |->
                  Cardinality({k \in DOMAIN processed[st] :
                                  processed[st][k].name = DataName})], Storages)

\* C1: at most one job is ever spawned for each (name, source id, asset type).
C1_AtMostOneJobPerKey ==
    \A i, j \in DOMAIN jobs :
        (/\ jobs[i].name = jobs[j].name
         /\ jobs[i].source_id = jobs[j].source_id
         /\ jobs[i].type = jobs[j].type) => i = j

\* Two calls for one request have returned, one through a miss and one through
\* a hit, and one job was spawned for the request.
C1_Witness ==
    \E r1, r2 \in LoadsReturned :
        /\ SameTriple(r1, r2) /\ r1.hit /\ ~r2.hit
        /\ Cardinality(JobsFor(r1.name, r1.source, r1.type)) = 1

\* C2: all load calls for the same (name, source id, asset type) return the
\* same handle, which is the one the cache holds for the key, and one handle
\* is allocated per cached key.
C2_SameRequestSameHandle ==
    /\ \A r1, r2 \in LoadsReturned : SameTriple(r1, r2) => r1.handle = r2.handle
    /\ \A r \in LoadsReturned :
           /\ r.key \in DOMAIN handles
           /\ handles[r.key].handle = r.handle
    /\ SumOver(allocated, Storages)
           = Cardinality(DOMAIN handles) + DataAllocations

\* A miss and a hit for one request have both returned the cached handle.
C2_Witness ==
    \E r1, r2 \in LoadsReturned :
        /\ SameTriple(r1, r2) /\ r1.hit # r2.hit
        /\ r1.handle = r2.handle
        /\ r1.handle = handles[r1.key].handle

\* C3: two load calls whose (name, source id, asset type) differ never
\* receive the same handle.
C3_DistinctRequestsDistinctHandles ==
    \A r1, r2 \in LoadsReturned : ~SameTriple(r1, r2) => r1.handle # r2.handle


\* The results pushed with handle h.
ResultsWith(h) ==
    IF h.storage \in Storages
    THEN {k \in DOMAIN processed[h.storage] : processed[h.storage][k].handle = h}
    ELSE {}

\* The results job i pushed: they carry its tracker and its handle.
ResultsOfJob(i) ==
    {k \in ResultsWith(jobs[i].handle) :
        processed[jobs[i].handle.storage][k].tracker = jobs[i].tracker}

\* The data job i delivered.
DeliveredBy(i) ==
    processed[jobs[i].handle.storage][CHOOSE k \in ResultsOfJob(i) : TRUE].data

\* C4: under fair scheduling of the workers every spawned job eventually has
\* pushed exactly one result, and at no time more than one; a job that has
\* run has pushed its result.
C4_ExactlyOneResultPerJob ==
    /\ [](\A i \in DOMAIN jobs :
             /\ Cardinality(ResultsOfJob(i)) <= 1
             /\ jobs[i].state = "done" => Cardinality(ResultsOfJob(i)) = 1)
    /\ \A i \in JobIds :
           (i \in DOMAIN jobs)
               ~> (i \in DOMAIN jobs /\ Cardinality(ResultsOfJob(i)) = 1)

\* A job whose decode failed has run and its one result is in the queue.
C4_Witness ==
    \E i \in DOMAIN jobs :
        /\ jobs[i].state = "done" /\ jobs[i].outcome = "err"
        /\ Cardinality(ResultsOfJob(i)) = 1
        /\ ~DeliveredBy(i).ok

\* No call is in progress and every spawned job has run.
Quiescent ==
    /\ \A t \in Threads : ~Busy(t)
    /\ \A i \in DOMAIN jobs : jobs[i].state = "done"

\* C5: every handle a load call returned has exactly one result pushed for it
\* once all calls and jobs have finished.
C5_ReturnedHandleGetsOneResult ==
    Quiescent => \A r \in LoadsReturned : Cardinality(ResultsWith(r.handle)) = 1

\* A load call (not load_from_data) is in progress on thread t.
InLoad(t) ==
    calls[t].pc \in {"lock", "get", "allocate", "progress", "source", "return"}

C6_EndsInReturn(t) ==
    (InLoad(t) /\ ~Busy(t)') =>
        \/ calls[t].pc = "return"
        \/ calls[t].pc = "get" /\ HandlesContains(calls[t].key) /\ ~poisoned'

C7_DeliveredOutcome ==
    \A i \in DOMAIN jobs :
        jobs[i].state = "done" =>
            /\ Cardinality(ResultsOfJob(i)) = 1
            /\ jobs[i].outcome = "ok" =>
                   /\ DeliveredBy(i).ok
                   /\ DeliveredBy(i).value.data = "decoded"
                   /\ DeliveredBy(i).value.by = jobs[i].format
            /\ (jobs[i].outcome = "err" /\ jobs[i].or_else = "substitute") =>
                   /\ DeliveredBy(i).ok
                   /\ DeliveredBy(i).value.data = "fallback"
            /\ (jobs[i].outcome = "err" /\ jobs[i].or_else = "fail") =>
                   /\ ~DeliveredBy(i).ok
                   /\ DeliveredBy(i).value.error = "E2"

\* Two jobs whose decode failed have delivered: one the transform's data, the
\* other the transform's error.
C7_Witness ==
    \E i, j \in DOMAIN jobs :
        /\ jobs[i].state = "done" /\ jobs[i].outcome = "err"
        /\ jobs[i].or_else = "substitute" /\ DeliveredBy(i).ok
        /\ jobs[j].state = "done" /\ jobs[j].outcome = "err"
        /\ jobs[j].or_else = "fail" /\ ~DeliveredBy(j).ok

\* C8: without a recovery transform a failed decode delivers the decoder's
\* error E, unchanged, wrapped in the context of the format's name.
C8_PropagatedError ==
    \A i \in DOMAIN jobs :
        (jobs[i].state = "done" /\ jobs[i].outcome = "err"
         /\ jobs[i].or_else = "propagate") =>
            /\ Cardinality(ResultsOfJob(i)) = 1
            /\ DeliveredBy(i) =
                   [ok |-> FALSE,
                    value |-> [error |-> "E", context |-> <<jobs[i].format>>]]

\* A job of a load without recovery transform has failed and delivered.
C8_Witness ==
    \E i \in DOMAIN jobs :
        /\ jobs[i].state = "done" /\ jobs[i].outcome = "err"
        /\ jobs[i].or_else = "propagate"
        /\ ~DeliveredBy(i).ok

\* What a step of load_from_data on thread t does.
C9_DataStep(t) ==
    /\ (calls[t].pc = "idle" /\ calls'[t].pc = "data_push") =>
           /\ num_assets' = [num_assets EXCEPT ![ProgressOf(t)] = @ + 1]
           /\ calls'[t].handle.id > allocated[calls'[t].storage]
           /\ ResultsWith(calls'[t].handle) = {}
           /\ jobs' = jobs
    /\ (calls[t].pc = "data_push" /\ calls'[t].pc = "idle") =>
           /\ processed' = [processed EXCEPT ![calls[t].storage] =
                  Append(@, [data |-> [ok |-> TRUE,
                                       value |-> [data |-> calls[t].data,
                                                  by |-> "caller",
                                                  from |-> "caller",
                                                  reload |-> FALSE]],
                             handle |-> calls[t].handle, name |-> DataName,
                             tracker |-> calls[t].tracker])]
           /\ returned' \ returned \subseteq
                  {r \in returned' : r.op = "data" /\ r.handle = calls[t].handle}
           /\ num_assets' = num_assets
           /\ jobs' = jobs

\* C9: a load_from_data call adds one asset to its progress object, pushes
\* exactly one successful result carrying its data and its newly allocated
\* handle before it returns, and spawns no job.
C9_LoadFromDataSynchronous ==
    /\ [][\A t \in Threads : C9_DataStep(t)]_vars
    /\ [](\A r \in returned : r.op = "data" =>
             /\ Cardinality(ResultsWith(r.handle)) = 1
             /\ \A k \in ResultsWith(r.handle) :
                    processed[r.handle.storage][k].data.ok
             /\ \A i \in DOMAIN jobs : jobs[i].handle # r.handle)

\* A load_from_data call has returned and its result is in the queue.
C9_Witness ==
    \E r \in returned :
        /\ r.op = "data"
        /\ \E k \in ResultsWith(r.handle) :
               /\ processed[r.handle.storage][k].data.ok
               /\ processed[r.handle.storage][k].name = DataName

\* C10: no load call whose source id is unregistered when it is made returns
\* a handle.
C10_UnregisteredNeverReturns ==
    \A r \in LoadsReturned : r.registered

\* The step by which thread t's load call returns the cached handle.
HitReturn(t) ==
    calls[t].pc = "get" /\ calls'[t].pc = "idle" /\ aborted' = aborted

\* The jobs spawned with cache key `key`.
JobsWithKey(key) == {i \in DOMAIN jobs : jobs[i].key = key}

\* A call that missed on `key` is past its insertion and before its spawn.
Admitted(key) ==
    \E u \in Threads :
        /\ calls[u].pc \in {"progress", "source"}
        /\ calls[u].key = key
        /\ calls[u].handle = handles[key].handle

\* C11 (as amended): a load call returning through a cache hit spawns no job
\* itself and at most one job exists for its key; that job, carrying the
\* returned handle, is already spawned, or the call that inserted the entry
\* is still between its insertion and its spawn, or that call panicked on an
\* unregistered source.
C11_HitSpawnsNothing ==
    [][\A t \in Threads : HitReturn(t) =>
          /\ jobs' = jobs
          /\ Cardinality(JobsWithKey(calls[t].key)) <= 1
          /\ \/ \E i \in JobsWithKey(calls[t].key) :
                    jobs[i].handle = handles[calls[t].key].handle
             \/ Admitted(calls[t].key)
             \/ \E a \in aborted :
                    /\ a.why = "no such source"
                    /\ KeyOf(a.name, a.source, a.type) = calls[t].key]_vars

\* A hit has returned while the call that inserted its entry, made on a
\* registered source, has not yet spawned the job.
C11_Witness ==
    \E r \in LoadsReturned :
        /\ r.hit /\ r.registered
        /\ JobsWithKey(r.key) = {}
        /\ Admitted(r.key)

\* C11 (as stated): when a load call returns through a cache hit it spawns no
\* job and the one job for its key is already spawned.
C11_HitAfterSubmission ==
    [][\A t \in Threads : HitReturn(t) =>
          /\ jobs' = jobs
          /\ Cardinality(JobsWithKey(calls[t].key)) = 1]_vars

\* What a step does to the hot-reload flag and its copies: a spawned closure
\* captures the Loader's flag, the captured copies never change, the decoder
\* of a job is run with the job's copy, and a set_hot_reload step changes
\* nothing of the Loader and its collaborators but the flag.
C12_FlagStep ==
    /\ Len(jobs') > Len(jobs) => jobs'[Len(jobs')].hot_reload = hot_reload
    /\ \A i \in DOMAIN jobs : jobs'[i].hot_reload = jobs[i].hot_reload
    /\ \A i \in DOMAIN jobs :
           (jobs[i].state = "queued" /\ jobs'[i].state = "done"
            /\ jobs'[i].outcome = "ok") =>
               LET q == processed'[jobs[i].handle.storage]
               IN  q[Len(q)].data.value.reload = jobs[i].hot_reload
    /\ hot_reload' # hot_reload =>
           UNCHANGED <<sources, handles, lockHolder, poisoned, allocated,
                       processed, num_assets, trackers, jobs, calls, returned,
                       aborted, ncalls>>

\* C12: each job runs the decoder with the hot-reload flag the Loader held
\* when the job was spawned, whatever set_hot_reload did since, and
\* set_hot_reload changes nothing but the flag.
C12_FlagCopiedAtSubmission ==
    /\ [][C12_FlagStep]_vars
    /\ [](\A i \in DOMAIN jobs :
             (jobs[i].state = "done" /\ jobs[i].outcome = "ok") =>
                 DeliveredBy(i).value.reload = jobs[i].hot_reload)

\* A job spawned while the flag was set has decoded with the flag set, after
\* set_hot_reload(false) cleared the Loader's flag.
C12_Witness ==
    \E i \in DOMAIN jobs :
        /\ jobs[i].state = "done" /\ jobs[i].outcome = "ok"
        /\ jobs[i].hot_reload /\ ~hot_reload
        /\ DeliveredBy(i).value.reload

\* The registry after id was registered with backend b.
Registered(id, b) ==
    /\ DOMAIN sources' = DOMAIN sources \cup {id}
    /\ sources'[id] = b
    /\ \A i \in DOMAIN sources \ {id} : sources'[i] = sources[i]

\* C13: add_source(id, b) makes id resolve to b and leaves every other id as
\* it was, set_default_source(b) does to the registry what add_source("", b)
\* does, and nothing else changes the registry; so each id resolves to the
\* backend of the last call that registered it.
C13_LastRegistrationWins ==
    [][/\ \A id \in SourceIds, b \in Backends :
              AddSource(id, b) => Registered(id, b)
       /\ \A b \in Backends :
              /\ SetDefaultSource(b) => Registered(DefaultSource, b)
              /\ SetDefaultSource(b) <=> AddSource(DefaultSource, b)
       /\ sources' # sources =>
              \E id \in SourceIds, b \in Backends :
                  AddSource(id, b) /\ Registered(id, b)]_vars

\* The default source registered at construction has been overwritten: the
\* id resolves to the backend of the later call.
C13_Witness ==
    /\ nconfig = 1
    /\ sources[DefaultSource] = "dir2"
    /\ DOMAIN sources = {DefaultSource}

\* C14: the handle cache only grows: every step keeps each cached key, mapped
\* to the same boxed handle.
C14_CacheOnlyGrows ==
    [][\A k \in DOMAIN handles :
          k \in DOMAIN handles' /\ handles'[k] = handles[k]]_vars

\* Two keys are cached, each still mapped to the handle its call returned,
\* after all calls and jobs have finished.
C14_Witness ==
    /\ Quiescent
    /\ Cardinality(DOMAIN handles) = 2
    /\ \E r1, r2 \in LoadsReturned :
           /\ r1.key # r2.key
           /\ handles[r1.key].handle = r1.handle
           /\ handles[r2.key].handle = r2.handle

\* Thread t is between self.handles.lock() and the drop of the guard: at the
\* lookup, or at the allocation and insertion.
Holding(t) == calls[t].pc \in {"get", "allocate"}

\* What a step does with the cache and its lock: the cache is written, and
\* looked up, only by the thread holding the lock; a step that spawns or runs
\* a job is not taken by the holder and leaves the lock as it is.
C15_LockStep ==
    /\ handles' # handles =>
           \E t \in Threads : lockHolder = t /\ calls[t].pc = "allocate"
    /\ \A t \in Threads :
           (calls[t].pc = "get" /\ calls'[t] # calls[t]) => lockHolder = t
    /\ jobs' # jobs =>
           /\ lockHolder' = lockHolder
           /\ \A t \in Threads : calls'[t] # calls[t] => lockHolder # t

\* C15: at most one thread holds the cache lock; the cache is read and
\* written only by the holder; the holder is at the lookup or at the
\* allocation and insertion, never at the building or spawning of its job,
\* and running a job takes no lock.
C15_LockOnlyDuringAdmission ==
    /\ [](/\ \A t, u \in Threads : (Holding(t) /\ Holding(u)) => t = u
          /\ \A t \in Threads : Holding(t) <=> lockHolder = t
          /\ lockHolder \in Threads \cup {NoThread})
    /\ [][C15_LockStep]_vars

\* One thread holds the lock at its insertion while the other waits for the
\* lock.
C15_Witness ==
    \E t, u \in Threads :
        /\ t # u
        /\ lockHolder = t /\ calls[t].pc = "allocate"
        /\ calls[u].pc = "lock"

\* Job i runs in this step.
Runs(i) == jobs[i].state = "queued" /\ jobs'[i].state = "done"

\* C16: the step in which a job runs appends one result, carrying the job's
\* handle, name and tracker, to the queue of the job's storage and changes
\* nothing else: not the handle cache, the source registry, the hot-reload
\* flag, the storages' allocators and other queues, the progress objects,
\* the lock or any call in progress.
C16_JobOnlyPushesResult ==
    [][\A i \in DOMAIN jobs : Runs(i) =>
          /\ \E data \in {JobData(jobs[i], o) : o \in ImportOutcomes} :
                 processed' = [processed EXCEPT ![jobs[i].handle.storage] =
                     Append(@, [data |-> data, handle |-> jobs[i].handle,
                                name |-> jobs[i].name,
                                tracker |-> jobs[i].tracker])]
          /\ UNCHANGED <<hot_reload, sources, handles, lockHolder, poisoned,
                         allocated, num_assets, trackers, calls>>
          /\ \A j \in DOMAIN jobs \ {i} : jobs'[j] = jobs[j]]_vars

\* A job whose decode failed has run: its one result is in the queue and its
\* key is still cached with its handle.
C16_Witness ==
    \E i \in DOMAIN jobs :
        /\ jobs[i].state = "done" /\ jobs[i].outcome = "err"
        /\ Cardinality(ResultsOfJob(i)) = 1
        /\ jobs[i].key \in DOMAIN handles
        /\ handles[jobs[i].key].handle = jobs[i].handle

\* Thread t's load call panics in Loader::source in this step.
AbortsOnSource(t) == calls[t].pc = "source" /\ calls'[t].pc = "idle"

\* C17: when a load call aborts because its source id is unregistered, no
\* entry for its key is in the handle cache, and the call has allocated no
\* handle from its storage and has not added an asset to its progress object
\* (it holds no handle and no tracker).
C17_AbortLeavesNoTrace ==
    [][\A t \in Threads : AbortsOnSource(t) =>
          /\ calls[t].key \notin DOMAIN handles
          /\ calls[t].handle = NoHandle
          /\ calls[t].tracker = NoTracker]_vars

\* The results pushed, on any storage's queue, that carry tracker tr.
ResultsCarrying(tr) ==
    {x \in Storages \X (1..(2 * MaxCalls)) :
        /\ x[2] \in DOMAIN processed[x[1]]
        /\ processed[x[1]][x[2]].tracker = tr}

\* The trackers created on progress object p.
TrackersOf(p) == {[progress |-> p, n |-> n] : n \in 1..trackers[p]}

\* C18: once all calls and jobs have finished, each progress object has had
\* as many assets added as trackers created, each of its trackers is carried
\* by exactly one pushed result, and so its count of assets equals the number
\* of results delivered for it.
C18_ProgressBalances ==
    Quiescent =>
        \A p \in ProgressObjs :
            /\ num_assets[p] = trackers[p]
            /\ \A tr \in TrackersOf(p) : Cardinality(ResultsCarrying(tr)) = 1
            /\ num_assets[p]
                   = Cardinality(UNION {ResultsCarrying(tr) : tr \in TrackersOf(p)})

\* Thread t takes a step of the path of a hit: the entry of load, the
\* locking, or the lookup that does not miss.
OnHitPath(t) ==
    /\ calls'[t] # calls[t]
    /\ calls[t].pc \in {"idle", "lock", "get"}
    /\ calls'[t].pc \in {"lock", "get", "idle"}

\* What the steps of a hit, and the insertion it later finds, do: the path
\* of a hit leaves every storage, every progress object, the jobs and the
\* cache as they are; the hit hands back the cached handle; an insertion
\* caches the handle just allocated from the inserting call's storage.
C19_HitStep ==
    /\ \A t \in Threads : OnHitPath(t) =>
           UNCHANGED <<allocated, processed, num_assets, trackers, jobs,
                       handles>>
    /\ \A t \in Threads : HitReturn(t) =>
           \A r \in returned' \ returned :
               r.hit /\ r.handle = handles[calls[t].key].handle
    /\ handles' # handles =>
           \E t \in Threads :
               /\ calls[t].pc = "allocate"
               /\ handles'[calls[t].key].handle.storage = calls[t].storage
               /\ handles'[calls[t].key].handle.id
                      = allocated[calls[t].storage] + 1
               /\ allocated'[calls[t].storage]
                      = allocated[calls[t].storage] + 1

\* C19: a load call that hits the cache spawns no job (its format, options
\* and recovery transform are never used), adds no asset and creates no
\* tracker on its progress object, allocates no handle and pushes no result
\* on its storage; the handle it returns is the cached one, which was
\* allocated from the storage of the call that inserted the key.
C19_HitUsesOnlyKey ==
    /\ [][C19_HitStep]_vars
    /\ [](\A r \in LoadsReturned : r.hit =>
             /\ r.handle = handles[r.key].handle
             /\ r.handle.id \in 1..allocated[r.handle.storage])

\* Two calls were made; the second, made with another storage of the same
\* asset type, has hit and returned the handle of the first call's storage:
\* nothing was allocated from or pushed to its own storage, and one asset
\* in all was added to the progress objects.
C19_Witness ==
    \E r \in LoadsReturned :
        /\ r.hit
        /\ r.handle.storage # r.storage
        /\ allocated[r.storage] = 0
        /\ processed[r.storage] = <<>>
        /\ ncalls = 2
        /\ SumOver(num_assets, ProgressObjs) = 1
        /\ SumOver(trackers, ProgressObjs) = 1

\* The source id of job i resolves to another backend than the one the job
\* captured: the id was registered again after the job was spawned.
Overwritten(i) ==
    /\ jobs[i].source_id \in DOMAIN sources
    /\ sources[jobs[i].source_id] # jobs[i].source

\* C20: a load call that finds its key cached after its source id was
\* registered again returns the handle of the job spawned before the
\* overwrite and spawns no job; the job spawned for the key before the
\* overwrite stays the only one and keeps the backend it captured, so no job
\* reads the key from the new backend.
C20_OverwriteKeepsCache ==
    /\ [][\A t \in Threads : \A i \in JobsWithKey(calls[t].key) :
              (HitReturn(t) /\ Overwritten(i)) =>
                  /\ jobs' = jobs
                  /\ \A r \in returned' \ returned :
                         r.handle = jobs[i].handle]_vars
    /\ [](\A i \in DOMAIN jobs : Overwritten(i) =>
             /\ JobsWithKey(jobs[i].key) = {i}
             /\ jobs[i].key \in DOMAIN handles
             /\ handles[jobs[i].key].handle = jobs[i].handle
             /\ \A r \in LoadsReturned :
                    r.key = jobs[i].key => r.handle = jobs[i].handle)

\* A job was spawned to read from dir1; the default source was then
\* registered again with dir2; a load of the same request made after that
\* has hit and returned the job's handle, and the job is the only one.
C20_Witness ==
    \E r \in LoadsReturned, i \in DOMAIN jobs :
        /\ r.hit /\ r.backend = "dir2"
        /\ r.name = jobs[i].name /\ r.source = jobs[i].source_id
        /\ r.type = jobs[i].type
        /\ jobs[i].source = "dir1"
        /\ r.handle = jobs[i].handle
        /\ Len(jobs) = 1

====
